---- MODULE Spec2Model ----
(***************************************************************************)
(* Portkey_Chatbot: the chat log (chatbot/models.py), the chat handler and *)
(* the public analytics page (chatbot/views.py) and the cached analytics   *)
(* page of the Django admin (chatbot/admin.py).                            *)
(*                                                                         *)
(* Conventions of the model                                                *)
(*   - time is an integer number of milliseconds since 1970-01-01 00:00    *)
(*     (one time zone); a datetime is such a number;                       *)
(*   - money is an integer number of micro-dollars (6 decimal places);     *)
(*   - Python's None and SQL's NULL are the value None;                    *)
(*   - a user is identified with the username (auth.User.username is       *)
(*     unique, so user_id and user__username group rows alike);            *)
(*   - a query-string value is a sequence of one-character strings, so     *)
(*     that parsing it is computed and not assumed;                        *)
(*   - json.dumps of a list is the list.                                   *)
(***************************************************************************)
EXTENDS Integers, Sequences, FiniteSets, TLC

VARIABLES
    store,      \* the chatbot_chatlog table: the rows in insertion order
    now,        \* the wall clock, in milliseconds
    cache,      \* django.core.cache under "chatlog_analytics_v1": None or an entry
    resp,       \* the last response of chat_view / analytics_view (views.py)
    pc,         \* per admin request: the statement ChatLogAdmin.analytics_view is at
    ctx,        \* per admin request: the local variables computed so far
    begun,      \* per admin request: when, and over how many rows, it began
    started     \* number of admin requests begun so far

vars == <<store, now, cache, resp, pc, ctx, begun, started>>

None == "None"

-----------------------------------------------------------------------------
(* Bounds of the model *)

MaxRecords == 3          \* rows the chat handler may add in a behaviour
MaxHours == 1            \* Spec: the clock runs over this many hours
MaxConcRecords == 1      \* SpecConc: rows the chat handler may add in a behaviour
MaxCacheTicks == 3       \* SpecConc: the clock runs over this many steps of 150 s
MaxAdminRequests == 2    \* admin requests begun in a behaviour
MaxBaseUsers == 10       \* SpecAdmin: users with one row each in the largest initial table
MaxExtraRecords == 2     \* SpecAdmin: rows the chat handler may add in a behaviour
NumAdminWorkers == 2     \* admin requests in progress at the same time

-----------------------------------------------------------------------------
(* Units and program constants *)

SecMs == 1000
HourMs == 3600 * SecMs
DayMs == 24 * HourMs

CacheTimeout == 300                 \* cache.set(cache_key, context, 300): seconds
TopUsersLimit == 10                 \* [:10]
RatePer1k == 2000                   \* rate_per_1k = 0.002 dollars, in micro-dollars

-----------------------------------------------------------------------------
(* Arithmetic helpers *)

\* Python 3 round(): the quotient n / d (d > 0, n >= 0) rounded to the nearest
\* integer, a tie going to the even neighbour.
RoundHalfEven(n, d) ==
    LET q == n \div d
        r == n % d
    IN  IF 2 * r > d THEN q + 1
        ELSE IF 2 * r < d THEN q
        ELSE IF q % 2 = 0 THEN q ELSE q + 1

RECURSIVE SumField(_, _)
SumField(rows, f) ==
    IF rows = <<>> THEN 0 ELSE Head(rows)[f] + SumField(Tail(rows), f)

RECURSIVE SumSeq(_)
SumSeq(s) == IF s = <<>> THEN 0 ELSE Head(s) + SumSeq(Tail(s))

Range(s) == {s[i] : i \in DOMAIN s}

-----------------------------------------------------------------------------
(* datetime.strptime(value, "%Y-%m-%d") *)

DigitChars == <<"0", "1", "2", "3", "4", "5", "6", "7", "8", "9">>
IsDigit(c) == c \in Range(DigitChars)
Digit(c) == (CHOOSE i \in DOMAIN DigitChars : DigitChars[i] = c) - 1

\* %m is the pattern 1[0-2]|0[1-9]|[1-9]: how many characters it takes at
\* position i of s, 0 when it does not match.
MonthWidth(s, i) ==
    IF i > Len(s) THEN 0
    ELSE IF i + 1 <= Len(s) /\ s[i] = "1" /\ s[i + 1] \in {"0", "1", "2"} THEN 2
    ELSE IF i + 1 <= Len(s) /\ s[i] = "0" /\ IsDigit(s[i + 1]) /\ s[i + 1] # "0" THEN 2
    ELSE IF IsDigit(s[i]) /\ s[i] # "0" THEN 1
    ELSE 0

\* %d is the pattern 3[01]|[12]\d|0[1-9]|[1-9]| [1-9].
DayWidth(s, i) ==
    IF i > Len(s) THEN 0
    ELSE IF i + 1 <= Len(s) /\ s[i] = "3" /\ s[i + 1] \in {"0", "1"} THEN 2
    ELSE IF i + 1 <= Len(s) /\ s[i] \in {"1", "2"} /\ IsDigit(s[i + 1]) THEN 2
    ELSE IF i + 1 <= Len(s) /\ s[i] = "0" /\ IsDigit(s[i + 1]) /\ s[i + 1] # "0" THEN 2
    ELSE IF IsDigit(s[i]) /\ s[i] # "0" THEN 1
    ELSE IF i + 1 <= Len(s) /\ s[i] = " " /\ IsDigit(s[i + 1]) /\ s[i + 1] # "0" THEN 2
    ELSE 0

RECURSIVE Number(_)
Number(s) ==
    IF s = <<>> THEN 0
    ELSE IF s[Len(s)] = " " THEN Number(SubSeq(s, 1, Len(s) - 1))
    ELSE 10 * Number(SubSeq(s, 1, Len(s) - 1)) + Digit(s[Len(s)])

IsLeap(y) == (y % 4 = 0 /\ y % 100 # 0) \/ y % 400 = 0

DaysInMonth(y, m) ==
    IF m = 2 THEN (IF IsLeap(y) THEN 29 ELSE 28)
    ELSE IF m \in {4, 6, 9, 11} THEN 30 ELSE 31

\* The proleptic Gregorian day number of y-m-d, counted from 1970-01-01.
DaysFromCivil(y, m, d) ==
    LET yy == IF m <= 2 THEN y - 1 ELSE y
        era == yy \div 400
        yoe == yy - era * 400
        mp == IF m > 2 THEN m - 3 ELSE m + 9
        doy == (153 * mp + 2) \div 5 + d - 1
        doe == yoe * 365 + yoe \div 4 - yoe \div 100 + doy
    IN  era * 146097 + doe - 719468

ValueError == "ValueError"

Raise(e) == [raised |-> TRUE, error |-> e]
Return(v) == [raised |-> FALSE, value |-> v]

\* Return(the datetime: midnight of the day) or Raise(ValueError).
Strptime(s) ==
    IF ~(Len(s) >= 5 /\ \A i \in 1..4 : IsDigit(s[i])) \/ s[5] # "-" THEN Raise(ValueError)
    ELSE LET mw == MonthWidth(s, 6)
             dpos == 6 + mw + 1
             dw == DayWidth(s, dpos)
         IN  IF mw = 0 \/ 6 + mw > Len(s) \/ s[6 + mw] # "-" THEN Raise(ValueError)
             ELSE IF dw = 0 THEN Raise(ValueError)
             ELSE IF dpos + dw - 1 # Len(s) THEN Raise(ValueError)  \* unconverted data remains
             ELSE LET y == Number(SubSeq(s, 1, 4))
                      m == Number(SubSeq(s, 6, 5 + mw))
                      d == Number(SubSeq(s, dpos, dpos + dw - 1))
                  IN  IF y < 1 \/ d > DaysInMonth(y, m) THEN Raise(ValueError)
                      ELSE Return(DaysFromCivil(y, m, d) * DayMs)

-----------------------------------------------------------------------------
(* chatbot/utils.py *)

DefaultProvider == "openai"

\* MODEL_PROVIDERS, as the set of its (model, provider) pairs in file order.
MODEL_PROVIDERS ==
    << <<"@first-integrati-600395/gemini-2.5-pro", "google">>,
       <<"gpt-4", "openai">>,
       <<"gpt-3.5-turbo", "openai">>,
       <<"claude-3-opus-20240229", "anthropic">> >>

\* MODEL_PROVIDERS.get(model_id, "openai")
get_provider(model_id) ==
    IF \E i \in DOMAIN MODEL_PROVIDERS : MODEL_PROVIDERS[i][1] = model_id
    THEN MODEL_PROVIDERS[CHOOSE i \in DOMAIN MODEL_PROVIDERS : MODEL_PROVIDERS[i][1] = model_id][2]
    ELSE DefaultProvider

\* The static list get_available_models falls back to (the list Portkey serves is
\* not part of the repository).
get_available_models == [i \in DOMAIN MODEL_PROVIDERS |-> MODEL_PROVIDERS[i][1]]

-----------------------------------------------------------------------------
(* chatbot/views.py: chat_view *)

\* rate_per_1k dollars per 1000 tokens, rounded to 6 decimals: micro-dollars.
calculate_cost(tokens) == RoundHalfEven(tokens * RatePer1k, 1000)

Whitespace == {" ", "\t", "\n"}

RECURSIVE LStrip(_)
LStrip(s) == IF s # <<>> /\ Head(s) \in Whitespace THEN LStrip(Tail(s)) ELSE s

RECURSIVE RStrip(_)
RStrip(s) ==
    IF s # <<>> /\ s[Len(s)] \in Whitespace THEN RStrip(SubSeq(s, 1, Len(s) - 1)) ELSE s

\* str.strip()
Strip(s) == RStrip(LStrip(s))

NoContent == "The AI did not return any content."

\* Python's truth value of a string or None, and `a or b` on strings and on numbers.
Truthy(v) == v # None /\ v # ""
Or(a, b) == IF Truthy(a) THEN a ELSE b
OrNum(a, b) == IF a # 0 THEN a ELSE b

\* ChatLocals with `error_message = str(e) or None`: an empty message is lost.
ChatLocalsEmptyMessageLost(selected_model, reply) ==
    IF reply.kind = "ok"
    THEN [model_name |-> selected_model,
          provider |-> get_provider(selected_model),
          response_text |-> [prefix |-> "", text |-> Or(reply.content, NoContent)],
          tokens_used |-> reply.tokens,
          latency_ms |-> reply.latency,
          status |-> "success",
          error_message |-> None]
    ELSE [model_name |-> IF reply.latency = 0 THEN None ELSE selected_model,
          provider |-> get_provider(selected_model),
          response_text |-> [prefix |-> "Error: ", text |-> reply.msg],
          tokens_used |-> 0,
          latency_ms |-> reply.latency,
          status |-> "error",
          error_message |-> Or(reply.msg, None)]

\* The locals of chat_view when the try statement is left.  `reply` is what
\* client.chat.completions.create does: [kind |-> "ok", content, tokens, latency]
\* or [kind |-> "raise", msg, latency], latency being 0 when the call itself raised
\* and the measured time when a later statement of the try block did.
ChatLocals(selected_model, reply) ==
    IF reply.kind = "ok"
    THEN [model_name |-> selected_model,
          provider |-> get_provider(selected_model),
          response_text |-> [prefix |-> "", text |-> Or(reply.content, NoContent)],
          tokens_used |-> reply.tokens,
          latency_ms |-> reply.latency,
          status |-> "success",
          error_message |-> None]
    ELSE [model_name |-> IF reply.latency = 0 THEN None ELSE selected_model,
          provider |-> get_provider(selected_model),
          response_text |-> [prefix |-> "Error: ", text |-> reply.msg],
          tokens_used |-> 0,
          latency_ms |-> reply.latency,
          status |-> "error",
          error_message |-> reply.msg]

\* The row ChatLog.objects.create inserts.
NewChatLog(id, user, query, selected_model, reply, t) ==
    LET l == ChatLocals(selected_model, reply)
    IN  [id |-> id,
         user |-> user,
         model_name |-> Or(l.model_name, Or(selected_model, "unknown")),
         provider |-> Or(l.provider, Or(get_provider(selected_model), "unknown")),
         user_query |-> query,
         response_text |-> l.response_text,
         tokens_used |-> OrNum(l.tokens_used, 0),
         cost |-> calculate_cost(OrNum(l.tokens_used, 0)),
         latency |-> OrNum(l.latency_ms, 0),
         status |-> l.status,
         error_message |-> l.error_message,
         timestamp |-> t]

NoResponse == [view |-> "none"]

\* chat_view.  method: "GET" or "POST"; user: the authenticated username or None;
\* rawQuery: POST["query"]; model: POST["model"] or None when the field is absent.
chat_view(method, user, rawQuery, model, reply) ==
    LET query == Strip(rawQuery)
        selected_model == IF method = "POST" /\ model # None THEN model
                          ELSE get_available_models[1]
        saves == method = "POST" /\ query # <<>>
        row == NewChatLog(Len(store) + 1, user, query, selected_model, reply, now)
    IN  /\ store' = IF saves THEN Append(store, row) ELSE store
        /\ resp' = [view |-> "chat_view",
                    outcome |-> "ok",
                    saved |-> saves,
                    request |-> [method |-> method],
                    context |-> [response |-> IF saves THEN row.response_text
                                              ELSE [prefix |-> "", text |-> None],
                                 selected_model |-> selected_model]]
        /\ UNCHANGED <<now, cache, pc, ctx, begun, started>>

-----------------------------------------------------------------------------
(* The ORM queries the views build.  A queryset is the sequence of its rows. *)

\* request.GET: each parameter is Absent or Given(value).
Absent == [has |-> FALSE]
Given(v) == [has |-> TRUE, v |-> v]

\* `if value:` on request.GET.get(name): present and not empty.
Supplied(o, empty) == o.has /\ o.v # empty

TruncHour(t) == (t \div HourMs) * HourMs
TruncDay(t) == (t \div DayMs) * DayMs

\* qs.annotate(hour=TruncHour("timestamp")) and .annotate(day=TruncDay("timestamp"))
AnnotateTime(rows) ==
    [i \in DOMAIN rows |->
        [hour |-> TruncHour(rows[i].timestamp), day |-> TruncDay(rows[i].timestamp)] @@ rows[i]]

IsError(r) == r.error_message # None       \* ~Q(error_message__isnull=True)

\* GroupBy as an inner join with the user table would make it: in the grouping by
\* user, the rows whose user is NULL are lost.
GroupByDropNull(rows, f) ==
    { [key |-> k,
       rows |-> SelectSeq(rows, LAMBDA r : r[f] = k),
       first |-> (CHOOSE i \in DOMAIN rows : rows[i][f] = k /\ \A j \in 1..(i - 1) : rows[j][f] # k)]
      : k \in {rows[i][f] : i \in {j \in DOMAIN rows : f = "user" => rows[j].user # None}} }

\* qs.values(f): the groups of GROUP BY f; a NULL key is a group like any other.
GroupBy(rows, f) ==
    { [key |-> k,
       rows |-> SelectSeq(rows, LAMBDA r : r[f] = k),
       first |-> (CHOOSE i \in DOMAIN rows : rows[i][f] = k /\ \A j \in 1..(i - 1) : rows[j][f] # k)]
      : k \in {rows[i][f] : i \in DOMAIN rows} }

\* The database's order among groups of equal count, which ORDER BY leaves open: by
\* the group's first row ("asc") or the reverse ("desc").
Plans == {"asc", "desc"}
TieBefore(x, y, plan) == IF plan = "asc" THEN x.first < y.first ELSE x.first > y.first

\* The elements of S in the strict total order Before, first to last.
SortBy(S, Before(_, _)) ==
    [i \in 1..Cardinality(S) |->
        CHOOSE x \in S : Cardinality({y \in S : Before(y, x)}) = i - 1]

\* .order_by("-count") on groups counted by Count("id")
OrderByCountDesc(G, plan) ==
    SortBy(G, LAMBDA x, y : Len(x.rows) > Len(y.rows)
                            \/ (Len(x.rows) = Len(y.rows) /\ TieBefore(x, y, plan)))

\* .order_by("hour"), .order_by("day")
OrderByKey(G) == SortBy(G, LAMBDA x, y : x.key < y.key)

\* Avg(f) as the exact fraction; an empty queryset has no average (None in Python).
Avg(rows, f) == [num |-> SumField(rows, f), den |-> Len(rows)]

\* round(avg or 0, 2), in hundredths
Round2(a) == IF a.den = 0 THEN 0 ELSE RoundHalfEven(100 * a.num, a.den)

DistinctUsers(rows) == {rows[i].user : i \in DOMAIN rows}

-----------------------------------------------------------------------------
(* django.core.cache, holding the one key "chatlog_analytics_v1" *)

NoEntry == [has |-> FALSE]

\* CacheGet without the expiry test: an entry is served for ever.
CacheGetIgnoresExpiry(c, t) == IF c.has THEN Given(c.value) ELSE Absent

\* cache.get(key): the value of an entry that has not expired.  (storedAt records
\* when the entry was set; the cache itself keeps only the expiry time.)
CacheGet(c, t) == IF c.has /\ c.expires > t THEN Given(c.value) ELSE Absent

\* cache.set(key, value, timeout)
CacheSet(value, timeout, t) ==
    [has |-> TRUE, value |-> value, expires |-> t + timeout * SecMs, storedAt |-> t]

-----------------------------------------------------------------------------
(* chatbot/views.py: analytics_view *)

\* ResolveFilters with the end date parsed inside `try: ... except ValueError: pass`:
\* an end date that does not parse is no filter.
ResolveFiltersEndUnchecked(GET) ==
    LET useStart == Supplied(GET.start_date, <<>>)
        useEnd == Supplied(GET.end_date, <<>>) /\ ~Strptime(GET.end_date.v).raised
        start == IF useStart THEN Strptime(GET.start_date.v) ELSE Return(0)
        end == IF useEnd THEN Strptime(GET.end_date.v) ELSE Return(0)
    IN  IF start.raised
        THEN Raise(ValueError)
        ELSE [raised |-> FALSE,
              byUser |-> Supplied(GET.user, ""),
              user |-> IF Supplied(GET.user, "") THEN GET.user.v ELSE "",
              byStart |-> useStart,
              start |-> start.value,
              byEnd |-> useEnd,
              end |-> IF useEnd THEN end.value + DayMs - SecMs ELSE 0]

\* Lines 107-121: the filters of the request, or the ValueError strptime raises.
\* No query runs here: a queryset is lazy.
ResolveFilters(GET) ==
    LET useStart == Supplied(GET.start_date, <<>>)
        useEnd == Supplied(GET.end_date, <<>>)
        start == IF useStart THEN Strptime(GET.start_date.v) ELSE Return(0)
        end == IF useEnd THEN Strptime(GET.end_date.v) ELSE Return(0)
    IN  IF start.raised \/ end.raised
        THEN Raise(ValueError)
        ELSE [raised |-> FALSE,
              byUser |-> Supplied(GET.user, ""),
              user |-> IF Supplied(GET.user, "") THEN GET.user.v ELSE "",
              byStart |-> useStart,
              start |-> start.value,
              byEnd |-> useEnd,
              end |-> IF useEnd THEN end.value + DayMs - SecMs ELSE 0]

\* The filtered queryset.
Matches(f, r) ==
    /\ f.byUser => (r.user # None /\ r.user = f.user)     \* user__username=user_filter
    /\ f.byStart => r.timestamp >= f.start                 \* timestamp__gte
    /\ f.byEnd => r.timestamp <= f.end                     \* timestamp__lte

Queryset(f, rows) == SelectSeq(rows, LAMBDA r : Matches(f, r))

user_usage(qs, plan) ==
    LET G == OrderByCountDesc(GroupBy(qs, "user"), plan)
    IN  [i \in DOMAIN G |-> [user__username |-> G[i].key,
                             requests |-> Len(G[i].rows),
                             cost |-> SumField(G[i].rows, "cost")]]

\* model_usage and provider_usage
usage_by(qs, f, plan) ==
    LET G == OrderByCountDesc(GroupBy(qs, f), plan)
    IN  [i \in DOMAIN G |-> [key |-> G[i].key, requests |-> Len(G[i].rows)]]

\* error_usage (by provider) and error_types (by error_message)
errors_by(qs, f, plan) ==
    LET G == OrderByCountDesc(GroupBy(SelectSeq(qs, IsError), f), plan)
    IN  [i \in DOMAIN G |-> [key |-> G[i].key, count |-> Len(G[i].rows)]]

feedback_trend(qs) ==
    LET G == OrderByKey(GroupBy(AnnotateTime(qs), "hour"))
    IN  [i \in DOMAIN G |-> [hour |-> G[i].key, avg_feedback |-> Avg(G[i].rows, "latency")]]

time_series(qs) ==
    LET G == OrderByKey(GroupBy(AnnotateTime(qs), "hour"))
    IN  [i \in DOMAIN G |->
            [hour |-> G[i].key,
             requests |-> Len(G[i].rows),
             errors |-> Len(SelectSeq(G[i].rows, IsError)),
             tokens |-> SumField(G[i].rows, "tokens_used"),
             cost |-> SumField(G[i].rows, "cost"),
             latency |-> Avg(G[i].rows, "latency"),
             \* Count("user_id", distinct=True): COUNT(DISTINCT ...) skips NULL
             unique_users |-> Cardinality(DistinctUsers(G[i].rows) \ {None})]]

\* The queries of lines 124-192, in the order they are written.
AnalyticsQueries ==
    <<"total_cost", "total_tokens", "total_requests", "unique_users", "avg_latency",
      "errors", "user_usage", "model_usage", "provider_usage", "error_usage",
      "error_types", "feedback_trend", "time_series", "all_users">>

\* Lines 123-217: the template context, over the rows `rows` of the table.
\* total_cost is in 1/10000 dollar and avg_latency in 1/100 ms (round(x, 4),
\* round(x, 2)); all_users is the set of its values (their order is by username).
AnalyticsContext(GET, f, rows, plan) ==
    LET qs == Queryset(f, rows)
    IN  [all_users |-> DistinctUsers(rows),
         selected_user |-> GET.user,
         start_date |-> IF f.byStart THEN Given(f.start) ELSE GET.start_date,
         end_date |-> IF f.byEnd THEN Given(f.end) ELSE GET.end_date,
         total_cost |-> RoundHalfEven(SumField(qs, "cost"), 100),
         total_tokens |-> SumField(qs, "tokens_used"),
         total_requests |-> Len(qs),
         \* .values("user_id").distinct().count(): SELECT DISTINCT keeps NULL
         unique_users |-> Cardinality(DistinctUsers(qs)),
         avg_latency |-> Round2(Avg(qs, "latency")),
         errors |-> Len(SelectSeq(qs, IsError)),
         time_series_json |-> time_series(qs),
         user_usage_json |-> user_usage(qs, plan),
         model_usage_json |-> usage_by(qs, "model_name", plan),
         provider_usage_json |-> usage_by(qs, "provider", plan),
         error_usage_json |-> errors_by(qs, "provider", plan),
         error_types_json |-> errors_by(qs, "error_message", plan),
         feedback_json |-> feedback_trend(qs)]

\* The response to GET /analytics/: the rendered context, or the exception that
\* leaves the view, with the number of queries that ran against the table.
AnalyticsResponse(GET, rows, plan) ==
    LET f == ResolveFilters(GET)
    IN  IF f.raised
        THEN [view |-> "analytics_view", outcome |-> ValueError, request |-> GET,
              queries |-> 0]
        ELSE [view |-> "analytics_view", outcome |-> "ok", request |-> GET,
              queries |-> Len(AnalyticsQueries),
              context |-> AnalyticsContext(GET, f, rows, plan)]

\* analytics_view storing what it renders under the admin page's cache key.
analytics_view_caching(GET, plan) ==
    /\ resp' = AnalyticsResponse(GET, store, plan)
    /\ cache' = IF resp'.outcome = "ok" THEN CacheSet(resp'.context, CacheTimeout, now)
                ELSE cache
    /\ UNCHANGED <<store, now, pc, ctx, begun, started>>

analytics_view(GET, plan) ==
    /\ resp' = AnalyticsResponse(GET, store, plan)
    /\ UNCHANGED <<store, now, cache, pc, ctx, begun, started>>

-----------------------------------------------------------------------------
(* d["day"].strftime("%Y-%m-%d") *)

\* The civil date of a day number counted from 1970-01-01.
CivilFromDays(days) ==
    LET z == days + 719468
        era == z \div 146097
        doe == z - era * 146097
        yoe == (doe - doe \div 1460 + doe \div 36524 - doe \div 146096) \div 365
        doy == doe - (365 * yoe + yoe \div 4 - yoe \div 100)
        mp == (5 * doy + 2) \div 153
        d == doy - (153 * mp + 2) \div 5 + 1
        m == IF mp < 10 THEN mp + 3 ELSE mp - 9
        y == yoe + era * 400 + (IF m <= 2 THEN 1 ELSE 0)
    IN  [year |-> y, month |-> m, day |-> d]

\* n written with `width` digits, zero padded.
RECURSIVE Digits(_, _)
Digits(n, width) ==
    IF width = 0 THEN <<>>
    ELSE Append(Digits(n \div 10, width - 1), DigitChars[(n % 10) + 1])

Strftime(t) ==
    LET c == CivilFromDays(t \div DayMs)
    IN  Digits(c.year, 4) \o <<"-">> \o Digits(c.month, 2) \o <<"-">> \o Digits(c.day, 2)

-----------------------------------------------------------------------------
(* chatbot/admin.py: ChatLogAdmin.analytics_view *)

\* The queries of lines 39-72, in the order they are written.
AdminQueries ==
    <<"total_requests", "success_count", "error_count", "total_tokens", "avg_tokens",
      "per_model", "per_provider", "daily", "top_users">>

Take(s, n) == SubSeq(s, 1, IF Len(s) < n THEN Len(s) ELSE n)

count_by(rows, f, plan) ==
    LET G == OrderByCountDesc(GroupBy(rows, f), plan)
    IN  [i \in DOMAIN G |-> [key |-> G[i].key, count |-> Len(G[i].rows)]]

daily_qs(rows) ==
    LET G == OrderByKey(GroupBy(AnnotateTime(rows), "day"))
    IN  [i \in DOMAIN G |-> [day |-> G[i].key, count |-> Len(G[i].rows)]]

\* top_users over the rows that have a user (`.exclude(user__isnull=True)`).
top_users_named_only(rows, plan) ==
    LET named == SelectSeq(count_by(rows, "user", plan), LAMBDA g : g.key # None)
        G == Take(named, TopUsersLimit)
    IN  [i \in DOMAIN G |-> [user |-> Or(G[i].key, "anonymous"), count |-> G[i].count]]

\* Lines 68-73: the ten largest user groups, the NULL user shown as "anonymous".
top_users(rows, plan) ==
    LET G == Take(count_by(rows, "user", plan), TopUsersLimit)
    IN  [i \in DOMAIN G |-> [user |-> Or(G[i].key, "anonymous"), count |-> G[i].count]]

\* What the query named q returns over the rows of the table.
AdminQuery(q, rows, plan) ==
    CASE q = "total_requests" -> Len(rows)
      [] q = "success_count" -> Len(SelectSeq(rows, LAMBDA r : r.status = "success"))
      [] q = "error_count" -> Len(SelectSeq(rows, LAMBDA r : r.status = "error"))
      [] q = "total_tokens" -> SumField(rows, "tokens_used")
      [] q = "avg_tokens" -> Avg(rows, "tokens_used")
      [] q = "per_model" -> count_by(rows, "model_name", plan)
      [] q = "per_provider" -> count_by(rows, "provider", plan)
      [] q = "daily" -> daily_qs(rows)
      [] q = "top_users" -> top_users(rows, plan)

\* The locals of the view before its first statement.
AdminLocals ==
    [hit |-> FALSE, queries |-> 0, context |-> [title |-> ""],
     total_requests |-> 0, success_count |-> 0, error_count |-> 0, total_tokens |-> 0,
     avg_tokens |-> Avg(<<>>, "tokens_used"), per_model |-> <<>>, per_provider |-> <<>>,
     daily |-> <<>>, top_users |-> <<>>]

\* Lines 75-92: the template context built from the locals l.
AdminContext(l) ==
    [title |-> "ChatLog Analytics",
     total_requests |-> l.total_requests,
     success_count |-> l.success_count,
     error_count |-> l.error_count,
     total_tokens |-> l.total_tokens,
     avg_tokens |-> Round2(l.avg_tokens),
     models_labels |-> [i \in DOMAIN l.per_model |-> Or(l.per_model[i].key, "unknown")],
     models_counts |-> [i \in DOMAIN l.per_model |-> l.per_model[i].count],
     providers_labels |-> [i \in DOMAIN l.per_provider |-> Or(l.per_provider[i].key, "unknown")],
     providers_counts |-> [i \in DOMAIN l.per_provider |-> l.per_provider[i].count],
     daily_labels |-> [i \in DOMAIN l.daily |-> Strftime(l.daily[i].day)],
     daily_counts |-> [i \in DOMAIN l.daily |-> l.daily[i].count],
     top_users |-> l.top_users]

\* A request reaches the view.
AdminBegin(r) ==
    /\ pc[r] \in {"idle", "done"}
    /\ started < MaxAdminRequests
    /\ started' = started + 1
    /\ pc' = [pc EXCEPT ![r] = "get"]
    /\ ctx' = [ctx EXCEPT ![r] = AdminLocals]
    /\ begun' = [begun EXCEPT ![r] = [at |-> now, rows |-> Len(store)]]
    /\ UNCHANGED <<store, now, cache, resp>>

\* Lines 33-35: context = cache.get(cache_key); `if not context` (a stored
\* context is never empty).
AdminGet(r) ==
    /\ pc[r] = "get"
    /\ LET found == CacheGet(cache, now)
       IN  IF found.has
           THEN /\ ctx' = [ctx EXCEPT ![r].hit = TRUE, ![r].context = found.v]
                /\ pc' = [pc EXCEPT ![r] = "done"]
           ELSE /\ ctx' = ctx
                /\ pc' = [pc EXCEPT ![r] = AdminQueries[1]]
    /\ UNCHANGED <<store, now, cache, resp, begun, started>>

\* One of the queries of lines 39-72 runs against the table as it is now.
AdminRunQuery(r, plan) ==
    /\ \E i \in DOMAIN AdminQueries :
          /\ pc[r] = AdminQueries[i]
          /\ ctx' = [ctx EXCEPT ![r][AdminQueries[i]] = AdminQuery(AdminQueries[i], store, plan),
                                ![r].queries = @ + 1]
          /\ pc' = [pc EXCEPT ![r] = IF i < Len(AdminQueries) THEN AdminQueries[i + 1] ELSE "set"]
    /\ UNCHANGED <<store, now, cache, resp, begun, started>>

\* Lines 75-96: the context is built, cached for 300 seconds and rendered.
AdminSet(r) ==
    /\ pc[r] = "set"
    /\ ctx' = [ctx EXCEPT ![r].context = AdminContext(ctx[r])]
    /\ cache' = CacheSet(AdminContext(ctx[r]), CacheTimeout, now)
    /\ pc' = [pc EXCEPT ![r] = "done"]
    /\ UNCHANGED <<store, now, resp, begun, started>>

-----------------------------------------------------------------------------
(* The clock *)

Tick(t) ==
    /\ now < t
    /\ now' = t
    /\ UNCHANGED <<store, cache, resp, pc, ctx, begun, started>>

-----------------------------------------------------------------------------
(* The initial state and the requests of a behaviour *)

AdminReqs == 1..NumAdminWorkers

InitAt(t, rows) ==
    /\ store = rows
    /\ now = t
    /\ cache = NoEntry
    /\ resp = NoResponse
    /\ pc = [r \in AdminReqs |-> "idle"]
    /\ ctx = [r \in AdminReqs |-> AdminLocals]
    /\ begun = [r \in AdminReqs |-> [at |-> 0, rows |-> 0]]
    /\ started = 0

Chars(a, b, c, d, e, f, g, h, i, j) == <<a, b, c, d, e, f, g, h, i, j>>

Ok(content, tokens, latency) ==
    [kind |-> "ok", content |-> content, tokens |-> tokens, latency |-> latency]
Raises(msg, latency) == [kind |-> "raise", msg |-> msg, latency |-> latency]

RawQueries == {<<" ", "h", "i", "\n">>, <<" ">>}

\* Requests to the chat page by the users Us, for the models Ms, answered by Rs,
\* while the table holds fewer than cap rows.
ChatRequests(Us, Ms, Rs, cap) ==
    /\ Len(store) < cap
    /\ \/ \E user \in Us, q \in RawQueries, m \in Ms, reply \in Rs :
             chat_view("POST", user, q, m, reply)
       \/ \E user \in Us : chat_view("GET", user, <<>>, None, Ok("", 0, 0))

Params(Us, Ss, Es) == [user : Us, start_date : Ss, end_date : Es]

-----------------------------------------------------------------------------
(* Spec: the chat page and the public analytics page *)

Users == {None, "alice"}
Models == {"gpt-4", "claude-3-opus-20240229"}
Replies == {Ok("hello", 100, 120), Raises("timeout", 0), Raises("", 0)}
UserParams == {Absent, Given(""), Given("alice"), Given("carol")}
Hours == {k * HourMs : k \in 0..MaxHours}

Init == InitAt(0, <<>>)

Next ==
    \/ ChatRequests(Users, Models, Replies, MaxRecords)
    \/ \E GET \in Params(UserParams, {Absent}, {Absent}), plan \in Plans :
          analytics_view(GET, plan)
    \/ \E t \in Hours : Tick(t)

Spec == Init /\ [][Next]_vars

-----------------------------------------------------------------------------
(* Properties of the chat log and of the public analytics page (Spec) *)

\* The last response is a rendered analytics page.
Rendered == resp.view = "analytics_view" /\ resp.outcome = "ok"

\* The rows the last analytics request selected (the table has not changed since).
Selected == Queryset(ResolveFilters(resp.request), store)

Counts(list, f) == [i \in DOMAIN list |-> list[i][f]]

\* C4: after any sequence of chat requests every row has status "error" exactly when
\* its error_message is not NULL, and the error count of the analytics page (rows
\* with a message) is the error count of the admin page (rows with status "error")
\* over every filtered subset.
C4_StatusIffErrorMessage ==
    /\ \A i \in DOMAIN store :
          (store[i].status = "error") <=> (store[i].error_message # None)
    /\ Rendered =>
          resp.context.errors = AdminQuery("error_count", Selected, "asc")

C4_Witness ==
    /\ Rendered
    /\ resp.request.user = Given("alice")
    /\ resp.context.errors >= 1
    /\ resp.context.errors < Len(store)
    /\ \E i \in DOMAIN store : store[i].error_message = "" /\ store[i].user = "alice"
    /\ \E i \in DOMAIN store : store[i].status = "success"

\* Each row of the subset is in exactly one group of the listing, under key f.
OneGroupEach(list, keyField, rows, f) ==
    \A i \in DOMAIN rows :
        Cardinality({j \in DOMAIN list : list[j][keyField] = rows[i][f]}) = 1

\* C5: for every filtered subset the request counts of the model grouping sum to
\* total_requests, and so do those of the provider and of the user grouping: each
\* row is in exactly one group of each grouping (both pages).
C5_GroupCountsSumToTotal ==
    /\ Rendered =>
          LET c == resp.context
          IN  /\ SumSeq(Counts(c.model_usage_json, "requests")) = c.total_requests
              /\ SumSeq(Counts(c.provider_usage_json, "requests")) = c.total_requests
              /\ SumSeq(Counts(c.user_usage_json, "requests")) = c.total_requests
              /\ c.total_requests = Len(Selected)
              /\ OneGroupEach(c.model_usage_json, "key", Selected, "model_name")
              /\ OneGroupEach(c.provider_usage_json, "key", Selected, "provider")
              /\ OneGroupEach(c.user_usage_json, "user__username", Selected, "user")
    /\ \A plan \in Plans :
          /\ SumSeq(Counts(AdminQuery("per_model", store, plan), "count"))
                = AdminQuery("total_requests", store, plan)
          /\ SumSeq(Counts(AdminQuery("per_provider", store, plan), "count"))
                = AdminQuery("total_requests", store, plan)

C5_Witness ==
    /\ Rendered
    /\ resp.context.total_requests = 3
    /\ Len(resp.context.model_usage_json) = 2
    /\ Len(resp.context.provider_usage_json) = 2
    /\ Len(resp.context.user_usage_json) = 2
    /\ \E j \in DOMAIN resp.context.user_usage_json :
          resp.context.user_usage_json[j].user__username = None

\* C7 (as claimed): unique_users is the number of distinct non-NULL users of the
\* subset, and each hourly bucket's unique_users the number of distinct non-NULL
\* users of that hour.
C7_UniqueUsersSkipAnonymous ==
    Rendered =>
        /\ resp.context.unique_users = Cardinality(DistinctUsers(Selected) \ {None})
        /\ \A i \in DOMAIN resp.context.time_series_json :
              LET b == resp.context.time_series_json[i]
                  inHour == SelectSeq(Selected, LAMBDA r : TruncHour(r.timestamp) = b.hour)
              IN  b.unique_users = Cardinality(DistinctUsers(inHour) \ {None})

-----------------------------------------------------------------------------
(* SpecDates: the date filters of the public analytics page, around one day *)

Jan2 == Chars("1", "9", "7", "0", "-", "0", "1", "-", "0", "2")
Jan3 == Chars("1", "9", "7", "0", "-", "0", "1", "-", "0", "3")
Jan2Short == <<"1", "9", "7", "0", "-", "1", "-", "2">>
Feb30 == Chars("1", "9", "7", "0", "-", "0", "2", "-", "3", "0")
Slashed == Chars("0", "2", "/", "0", "1", "/", "1", "9", "7", "0")

\* Values that are not empty and that strptime rejects.
BadDates == {Feb30, Slashed}

\* The instants rows are written at: the last millisecond of January 1st, then on
\* January 2nd midnight, 23:59:59.000 and 23:59:59.500, then midnight of January 3rd.
DayInstants ==
    {DayMs - 1, DayMs, 2 * DayMs - SecMs, 2 * DayMs - SecMs + 500, 2 * DayMs}

StartParams == {Absent, Given(<<>>), Given(Jan2), Given(Jan2Short), Given(Feb30)}
EndParams == {Absent, Given(<<>>), Given(Jan2), Given(Jan3), Given(Slashed)}

InitDates == InitAt(0, <<>>)

NextDates ==
    \/ ChatRequests({None}, {"gpt-4"}, {Ok("hello", 100, 120)}, MaxRecords)
    \/ \E GET \in Params({Absent, Given("alice")}, StartParams, EndParams) :
          analytics_view(GET, "asc")
    \/ \E t \in DayInstants : Tick(t)

SpecDates == InitDates /\ [][NextDates]_vars

\* The day number (from 1970-01-01) a YYYY-MM-DD value names, for the days the
\* rows of SpecDates are written on.
DaysNamed == 0..2
IsoDate(d) == Strftime(d * DayMs)

\* C3 (as claimed): with start_date = D and end_date = D and no user filter, a row
\* is selected exactly when its timestamp falls on day D, whatever the time of day.
C3_WholeDaySelected ==
    \A d \in DaysNamed :
        (Rendered /\ ~Supplied(resp.request.user, "")
            /\ resp.request.start_date = Given(IsoDate(d))
            /\ resp.request.end_date = Given(IsoDate(d)))
        => /\ resp.context.total_requests
                = Len(SelectSeq(store, LAMBDA r : r.timestamp \div DayMs = d))
           /\ \A i \in DOMAIN store :
                 (store[i].timestamp \div DayMs = d)
                     <=> (\E j \in DOMAIN Selected : Selected[j].id = store[i].id)

AnalyticsAnswered == resp.view = "analytics_view"

\* A date parameter that is present, with a value of `bad`.
HasBadDate(GET, bad) ==
    \/ GET.start_date.has /\ GET.start_date.v \in bad
    \/ GET.end_date.has /\ GET.end_date.v \in bad

FailedBeforeAnyQuery ==
    /\ resp.outcome = ValueError
    /\ resp.queries = 0
    /\ "context" \notin DOMAIN resp

\* An analytics request leaves the table and the cache as they are.
AnalyticsReadOnly ==
    [][(resp'.view = "analytics_view" /\ (resp.view # "analytics_view" \/ resp' # resp))
          => (store' = store /\ cache' = cache)]_vars

\* C8 (as claimed): a start_date or end_date that is present and does not parse ends
\* the request in a ValueError before any query runs, with no payload.
C8_PresentUnparsableFails ==
    (AnalyticsAnswered /\ HasBadDate(resp.request, BadDates \cup {<<>>}))
        => FailedBeforeAnyQuery

\* C8 (amended): a start_date or end_date that is present, NOT EMPTY and does not
\* parse ends the request in a ValueError before any query runs, whatever the other
\* filters are; no payload is produced and the table and the cache are unchanged.
C8_NonEmptyUnparsableFails ==
    /\ []((AnalyticsAnswered /\ HasBadDate(resp.request, BadDates))
            => FailedBeforeAnyQuery)
    /\ AnalyticsReadOnly

C8_Witness ==
    /\ AnalyticsAnswered
    /\ resp.request.user = Given("alice")
    /\ resp.request.start_date = Given(Jan2)
    /\ resp.request.end_date = Given(Slashed)
    /\ resp.outcome = ValueError
    /\ Len(store) > 0

-----------------------------------------------------------------------------
(* SpecConc: admin analytics requests in progress together, rows being added and *)
(* the clock running while they compute                                          *)

CacheInstants == {k * 150 * SecMs : k \in 0..MaxCacheTicks}

InitConc == InitAt(0, <<>>)

NextConc ==
    \/ /\ Len(store) < MaxConcRecords
       /\ \E reply \in {Ok("hello", 100, 120), Raises("timeout", 0)} :
             chat_view("POST", None, <<"h", "i">>, "gpt-4", reply)
    \/ \E r \in AdminReqs :
          \/ AdminBegin(r)
          \/ AdminGet(r)
          \/ \E plan \in Plans : AdminRunQuery(r, plan)
          \/ AdminSet(r)
    \/ \E t \in CacheInstants : Tick(t)

SpecConc == InitConc /\ [][NextConc]_vars

-----------------------------------------------------------------------------
(* Properties of the cached admin page (SpecConc) *)

Done(r) == pc[r] = "done"
Timeout == CacheTimeout * SecMs

\* The cache.get of request r, and what it must do with an entry stored less than
\* 300 s ago: return it as it is, run no query and leave the cache alone.  Without
\* such an entry the request goes on to its first query.
GetServesFreshEntry ==
    \A r \in AdminReqs :
        (pc[r] = "get" /\ pc'[r] # "get") =>
            IF cache.has /\ now - cache.storedAt < Timeout
            THEN /\ pc'[r] = "done"
                 /\ ctx'[r].hit
                 /\ ctx'[r].context = cache.value
                 /\ ctx'[r].queries = 0
                 /\ cache' = cache
            ELSE /\ pc'[r] = "total_requests"
                 /\ ~ctx'[r].hit

\* A request that found no entry, or an expired one, ran every query and counts
\* every row that was in the table when it began.
MissRecomputes ==
    \A r \in AdminReqs :
        (Done(r) /\ ~ctx[r].hit) =>
            /\ ctx[r].queries = Len(AdminQueries)
            /\ ctx[r].context.total_requests >= begun[r].rows

\* ... and stores what it returns, to expire 300 s later.
MissStores ==
    \A r \in AdminReqs :
        (pc[r] = "set" /\ pc'[r] = "done") =>
            /\ cache'.has
            /\ cache'.value = ctx'[r].context
            /\ cache'.expires = now + 300000

\* C1: a request of the admin page that finds an entry stored less than 300 s ago
\* returns that payload without recomputing, whatever was inserted since; one that
\* finds no entry or an expired one recomputes, stores its result for 300 s, and its
\* payload counts every row inserted before it began.
C1_CacheContract ==
    /\ [][GetServesFreshEntry]_vars
    /\ []MissRecomputes
    /\ [][MissStores]_vars

\* A request was served a payload older than a row of the table, and another one
\* found the entry expired and recomputed.
C1_Witness ==
    \E r \in AdminReqs :
        /\ Done(r)
        /\ ctx[r].hit
        /\ ctx[r].context.total_requests < Len(store)
        /\ begun[r].rows = Len(store)

\* C9 (as claimed): whatever the interleaving, a row inserted more than 300 s before
\* a request of the admin page began is counted in the payload the request returns.
C9_NeverStaleBeyondTTL ==
    \A r \in AdminReqs :
        Done(r) =>
            \A i \in DOMAIN store :
                (store[i].timestamp + Timeout < begun[r].at)
                    => ctx[r].context.total_requests >= store[i].id

\* C10 (as claimed): the payload a request returns is the aggregate of one snapshot
\* of the table: its total is the sum of its success and error counts and the sum
\* of the counts of each of its groupings.
C10_PayloadOfOneSnapshot ==
    \A r \in AdminReqs :
        Done(r) =>
            LET c == ctx[r].context
            IN  /\ c.total_requests = c.success_count + c.error_count
                /\ c.total_requests = SumSeq(c.models_counts)
                /\ c.total_requests = SumSeq(c.providers_counts)
                /\ c.total_requests = SumSeq(c.daily_counts)

-----------------------------------------------------------------------------
(* SpecAdmin: the admin page and the public page over tables of many users *)

Jan1 == Chars("1", "9", "7", "0", "-", "0", "1", "-", "0", "1")

BaseUsers ==
    <<"u01", "u02", "u03", "u04", "u05", "u06", "u07", "u08", "u09", "u10", "u11", "u12">>

\* The table after k users have each had one chat answered.
BaseStore(k) ==
    [i \in 1..k |-> NewChatLog(i, BaseUsers[i], <<"h", "i">>, "gpt-4", Ok("hello", 100, 120), 0)]

BaseSizes == {0, MaxBaseUsers - 1, MaxBaseUsers}

InitAdmin == \E k \in BaseSizes : InitAt(0, BaseStore(k))

NextAdmin ==
    \/ /\ \E k \in BaseSizes : Len(store) < k + MaxExtraRecords /\ Len(store) >= k
       /\ \E user \in {None, "u01"} :
             chat_view("POST", user, <<"h", "i">>, "gpt-4", Ok("hello", 100, 120))
    \/ AdminBegin(1)
    \/ AdminGet(1)
    \/ \E plan \in Plans : AdminRunQuery(1, plan)
    \/ AdminSet(1)

SpecAdmin == InitAdmin /\ [][NextAdmin]_vars

NullRows(rows) == Len(SelectSeq(rows, LAMBDA r : r.user = None))

HasEntry(list, keyField, key, countField, n) ==
    \E j \in DOMAIN list : list[j][keyField] = key /\ list[j][countField] = n

\* The per-user listing the public page makes of the table always has the NULL
\* user's entry.
ListedOnPublicPage ==
    \A plan \in Plans :
        NullRows(store) > 0 =>
            HasEntry(user_usage(store, plan), "user__username", None,
                     "requests", NullRows(store))

\* The top_users query of the admin page, over the table it runs against.
TopUsersRuns(r) == pc[r] = "top_users" /\ pc'[r] = "set"

-----------------------------------------------------------------------------
(* SpecCache: the public page, with and without filters, beside the cached admin *)
(* page                                                                          *)

CacheParams ==
    {[user |-> Absent, start_date |-> Absent, end_date |-> Absent],
     [user |-> Given("alice"), start_date |-> Absent, end_date |-> Absent],
     [user |-> Absent, start_date |-> Given(Jan1), end_date |-> Absent],
     [user |-> Given(""), start_date |-> Given(<<>>), end_date |-> Given(Jan1)]}

InitCache == InitAt(0, <<>>)

NextCache ==
    \/ ChatRequests({None, "alice"}, {"gpt-4"}, {Ok("hello", 100, 120)}, MaxExtraRecords)
    \/ AdminBegin(1)
    \/ AdminGet(1)
    \/ \E plan \in Plans : AdminRunQuery(1, plan)
    \/ AdminSet(1)
    \/ \E GET \in CacheParams, plan \in Plans : analytics_view(GET, plan)

SpecCache == InitCache /\ [][NextCache]_vars

ActiveFilter(GET) ==
    Supplied(GET.user, "") \/ Supplied(GET.start_date, <<>>) \/ Supplied(GET.end_date, <<>>)

\* A step that answers an analytics request carrying an active filter.
FilteredAnswer ==
    /\ resp'.view = "analytics_view"
    /\ resp.view # "analytics_view" \/ resp' # resp
    /\ ActiveFilter(resp'.request)

\* C2: a request with an active filter (user, start_date or end_date) never reads
\* the cache and never writes it: it is answered by running the queries against the
\* table; only the unfiltered admin page stores an entry.
C2_FiltersBypassCache ==
    /\ [][FilteredAnswer =>
             /\ cache' = cache
             /\ resp'.outcome = "ok"
             /\ resp'.queries = Len(AnalyticsQueries)
             /\ resp'.context.total_requests
                   = Len(Queryset(ResolveFilters(resp'.request), store))]_vars
    /\ [][cache' # cache => \E r \in AdminReqs : pc[r] = "set" /\ pc'[r] = "done"]_vars

C2_Witness ==
    /\ Rendered
    /\ ActiveFilter(resp.request)
    /\ cache.has
    /\ cache.value.total_requests < Len(store)
    /\ resp.context.total_requests = Len(store)
    /\ Len(store) > 0

====
